---- MODULE Spec2Model ----
(***************************************************************************)
(* A model of the green-microbench framework:                              *)
(*   - analyzer/cpu_energy_attribution.py: normalize_ts, ts_to_epoch,      *)
(*     nearest_by_time and ShellyPowerAttributor (build_timeline,          *)
(*     align_timeline, attribute, export_per_service);                     *)
(*   - adapters/metrics/prometheus_export.py: _first_non_empty;            *)
(*   - adapters/power/shelly_adapter.py and runners/run_experiment.py:     *)
(*     the sampler and the experiment run that brackets the workload.      *)
(*                                                                         *)
(* Units.  CPU is counted in millicores (0.01 cores = 10), power in watts, *)
(* epochs in microseconds.  An estimated power is an exact fraction        *)
(* [num, den]: the float arithmetic of the code is modelled over the       *)
(* rationals.                                                              *)
(***************************************************************************)
EXTENDS Integers, Sequences, FiniteSets, TLC

VARIABLES
    \* --- the attribution pipeline (cpu_energy_attribution.py) ---
    pc,                  \* position of the pipeline's caller
    shelly_samples,      \* list of power samples handed to build_timeline
    cadvisor_by_service, \* dict service -> list of CPU samples
    max_time_skew_s,     \* ShellyPowerAttributor.max_time_skew_s (seconds)
    cpu_epsilon_cores,   \* ShellyPowerAttributor.cpu_epsilon_cores (millicores)
    timeline,            \* dict ts -> entry; also the heap of the shared objects
    aligned,             \* dict ts -> references into the timeline's objects
    per_service,         \* dict service -> list of readings, once exported
    \* --- the pipeline run again on the same samples in another order ---
    reordered,           \* the reordered inputs, or None
    reordered_result,    \* what the pipeline made of them, once run
    \* --- _first_non_empty (prometheus_export.py) ---
    fne_pc,              \* "loop", "returned" or "raised"
    responses,           \* what the backend answers to each candidate query
    fne_i,               \* index of the candidate the loop is at
    fne_calls,           \* the candidates executed so far, in order
    fne_result,          \* the value returned, once returned
    \* --- normalize_ts applied once and twice ---
    nt_pc,               \* "input", "once" or "twice"
    nt_input,            \* the timestamp string given
    nt_once,             \* normalize_ts(nt_input)
    nt_twice,            \* normalize_ts(nt_once)
    \* --- one experiment run (run_experiment.main, ShellyAdapter) ---
    m_pc,                \* position of main
    raised_at,           \* the statement whose exception left main, if any
    shelly_configured,   \* whether --shelly was given
    shelly,              \* main's variable shelly: None or the ShellyAdapter
    threads,             \* the sampler threads created so far
    clock,               \* the wall clock, in seconds
    power_log,           \* the records appended to power.jsonl
    locust_artifacts,    \* main's variable locust_artifacts, once assigned
    summary,             \* the content of summary.json, once written
    phases,              \* history: the phases main has gone through
    stop_calls           \* history: how many times shelly.stop() was called

pipeVars == <<pc, shelly_samples, cadvisor_by_service, max_time_skew_s,
              cpu_epsilon_cores, timeline, aligned, per_service>>

fneVars == <<fne_pc, responses, fne_i, fne_calls, fne_result>>

ntVars == <<nt_pc, nt_input, nt_once, nt_twice>>

runVars == <<m_pc, raised_at, shelly_configured, shelly, threads, clock, power_log,
             locust_artifacts, summary, phases, stop_calls>>

orderVars == <<reordered, reordered_result>>

vars == <<pipeVars, orderVars, fneVars, ntVars, runVars>>

\* What an action of one part leaves alone
notPipe == <<orderVars, fneVars, ntVars, runVars>>
notFne == <<pipeVars, orderVars, ntVars, runVars>>
notNt == <<pipeVars, orderVars, fneVars, runVars>>
notRun == <<pipeVars, orderVars, fneVars, ntVars>>

--------------------------------------------------------------------------
(* Bounds of the model *)

MaxSamples == 3
MaxCandidates == 4
MaxWall == 3
MaxLog == 2
MaxClock == 1
MaxCalls == 3

Times == {0, 1, 2}
PowerValues == {10, 20}
CpuValues == {0, 5, 10}
SkewChoices == {1, 2}
DefaultCpuEpsilon == 10
EpsilonChoices == {0, DefaultCpuEpsilon}
ServiceOrder == <<"A", "B">>

SeqsUpTo(S, n) == UNION {[1..k -> S] : k \in 0..n}

--------------------------------------------------------------------------
(* Python values: Optional and insertion-ordered dict *)

None == <<>>
Some(x) == <<x>>
IsNone(o) == o = <<>>
The(o) == o[1]

\* A dict is the sequence of its <<key, value>> items in insertion order.
DictKeys(d) == [i \in 1..Len(d) |-> d[i][1]]
DictHas(d, k) == \E i \in 1..Len(d) : d[i][1] = k
DictGet(d, k) == d[CHOOSE i \in 1..Len(d) : d[i][1] = k][2]
DictSet(d, k, v) ==
    IF DictHas(d, k)
    THEN [i \in 1..Len(d) |-> IF d[i][1] = k THEN <<k, v>> ELSE d[i]]
    ELSE Append(d, <<k, v>>)

--------------------------------------------------------------------------
(* Timestamps.  An ISO-8601 string is the record of what it spells out:    *)
(* the wall-clock second, an optional fraction and an optional UTC offset. *)
(* A datetime is [wall, micro, aware, off].                                *)

TsStr(w) == [wall |-> w, hasFrac |-> FALSE, micro |-> 0, hasOff |-> TRUE, off |-> 0]

\* A string that is no ISO-8601 timestamp spells out none of these.
Unparsable == [text |-> "not-a-timestamp"]

\* datetime.fromisoformat(s) returns; otherwise it raises ValueError
Parses(s) == "wall" \in DOMAIN s

fromisoformat(s) ==
    [wall  |-> s.wall,
     micro |-> IF s.hasFrac THEN s.micro ELSE 0,
     aware |-> s.hasOff,
     off   |-> IF s.hasOff THEN s.off ELSE 0]

isoformat(dt) ==
    [wall    |-> dt.wall,
     hasFrac |-> dt.micro # 0,
     micro   |-> dt.micro,
     hasOff  |-> dt.aware,
     off     |-> IF dt.aware THEN dt.off ELSE 0]

\* dt.replace(tzinfo=timezone.utc): the wall clock is kept
replace_tzinfo_utc(dt) == [dt EXCEPT !.aware = TRUE, !.off = 0]

\* Mutant: the wall clock is shifted but the offset is left in place.
astimezone_utc_KeepOffset(dt) == [dt EXCEPT !.wall = dt.wall - dt.off]

\* dt.astimezone(timezone.utc): the instant is kept
astimezone_utc(dt) == [dt EXCEPT !.wall = dt.wall - dt.off, !.off = 0]

replace_microsecond_0(dt) == [dt EXCEPT !.micro = 0]

normalize_ts(ts) ==
    LET dt  == fromisoformat(ts)
        utc == IF ~dt.aware THEN replace_tzinfo_utc(dt) ELSE astimezone_utc(dt)
    IN  isoformat(replace_microsecond_0(utc))

\* dt.timestamp(), in microseconds
ts_to_epoch(ts) ==
    LET dt  == fromisoformat(ts)
        utc == IF ~dt.aware THEN replace_tzinfo_utc(dt) ELSE dt
    IN  (utc.wall - utc.off) * 1000000 + utc.micro

Abs(x) == IF x < 0 THEN -x ELSE x

--------------------------------------------------------------------------
(* build_timeline *)

EmptyEntry == [shelly |-> None, services |-> None]

\* timeline.setdefault(ts, {})
EntryAt(tl, ts) == IF DictHas(tl, ts) THEN DictGet(tl, ts) ELSE EmptyEntry

\* Mutant: a reading already at the timestamp is kept.
SetShelly_FirstWins(tl, s) ==
    IF "ts" \notin DOMAIN s \/ "power_w" \notin DOMAIN s
    THEN tl
    ELSE LET ts == normalize_ts(s.ts)
             e  == EntryAt(tl, ts)
         IN  IF ~IsNone(e.shelly) THEN tl
             ELSE DictSet(tl, ts, [e EXCEPT !.shelly = Some([power_w |-> s.power_w])])

SetShelly(tl, s) ==
    IF "ts" \notin DOMAIN s \/ "power_w" \notin DOMAIN s
    THEN tl
    ELSE LET ts == normalize_ts(s.ts)
             e  == EntryAt(tl, ts)
         IN  DictSet(tl, ts, [e EXCEPT !.shelly = Some([power_w |-> s.power_w])])

\* Mutant: a record without cpu_cores_used counts as an idle reading.
SetService_NoCpuTest(tl, service, s) ==
    IF "ts" \notin DOMAIN s
    THEN tl
    ELSE LET ts   == normalize_ts(s.ts)
             e    == EntryAt(tl, ts)
             svcs == IF IsNone(e.services) THEN <<>> ELSE The(e.services)
             r    == [cpu_cores_used |-> IF "cpu_cores_used" \in DOMAIN s
                                         THEN s.cpu_cores_used ELSE 0,
                      estimated |-> None]
         IN  DictSet(tl, ts, [e EXCEPT !.services = Some(DictSet(svcs, service, r))])

SetService(tl, service, s) ==
    IF "ts" \notin DOMAIN s \/ "cpu_cores_used" \notin DOMAIN s
    THEN tl
    ELSE LET ts   == normalize_ts(s.ts)
             e    == EntryAt(tl, ts)
             svcs == IF IsNone(e.services) THEN <<>> ELSE The(e.services)
             r    == [cpu_cores_used |-> s.cpu_cores_used, estimated |-> None]
         IN  DictSet(tl, ts, [e EXCEPT !.services = Some(DictSet(svcs, service, r))])

RECURSIVE ShellyLoop(_, _, _)
ShellyLoop(samples, i, tl) ==
    IF i > Len(samples) THEN tl
    ELSE ShellyLoop(samples, i + 1, SetShelly(tl, samples[i]))

RECURSIVE SamplesLoop(_, _, _, _)
SamplesLoop(service, samples, i, tl) ==
    IF i > Len(samples) THEN tl
    ELSE SamplesLoop(service, samples, i + 1, SetService(tl, service, samples[i]))

RECURSIVE CadvisorLoop(_, _, _)
CadvisorLoop(by_service, j, tl) ==
    IF j > Len(by_service) THEN tl
    ELSE CadvisorLoop(by_service, j + 1,
                      SamplesLoop(by_service[j][1], by_service[j][2], 1, tl))

build_timeline(samples, by_service) ==
    CadvisorLoop(by_service, 1, ShellyLoop(samples, 1, <<>>))

\* normalize_ts raises on a sample that passed the test of its fields, and
\* nothing in build_timeline handles the exception.
build_timeline_raises(samples, by_service) ==
    \/ \E i \in 1..Len(samples) :
          /\ "ts" \in DOMAIN samples[i] /\ "power_w" \in DOMAIN samples[i]
          /\ ~Parses(samples[i].ts)
    \/ \E j \in 1..Len(by_service) : \E i \in 1..Len(by_service[j][2]) :
          LET s == by_service[j][2][i]
          IN  /\ "ts" \in DOMAIN s /\ "cpu_cores_used" \in DOMAIN s
              /\ ~Parses(s.ts)

--------------------------------------------------------------------------
(* nearest_by_time and align_timeline.  The objects of the timeline are    *)
(* shared, not copied: the value a dict of references holds for an object  *)
(* is the timeline key under which the object lives.                       *)

\* Mutant: the first candidate is kept, later and nearer ones are ignored.
NearestLoop_KeepFirst(candidates, target_epoch, i, best, best_delta) ==
    IF Len(candidates) = 0 THEN [best |-> None, best_delta |-> None]
    ELSE [best       |-> Some(candidates[1][2]),
          best_delta |-> Some(Abs(ts_to_epoch(candidates[1][1]) - target_epoch))]

\* Mutant: the candidate seen last is kept, whatever its distance.
NearestLoop_KeepLast(candidates, target_epoch, i, best, best_delta) ==
    IF Len(candidates) = 0 THEN [best |-> None, best_delta |-> None]
    ELSE LET n == Len(candidates)
         IN  [best       |-> Some(candidates[n][2]),
              best_delta |-> Some(Abs(ts_to_epoch(candidates[n][1]) - target_epoch))]

\* Mutant: the search keeps the candidate farthest from the target.
RECURSIVE NearestLoop_Farthest(_, _, _, _, _)
NearestLoop_Farthest(candidates, target_epoch, i, best, best_delta) ==
    IF i > Len(candidates) THEN [best |-> best, best_delta |-> best_delta]
    ELSE LET delta == Abs(ts_to_epoch(candidates[i][1]) - target_epoch)
         IN  IF IsNone(best_delta) \/ delta > The(best_delta)
             THEN NearestLoop_Farthest(candidates, target_epoch, i + 1,
                                       Some(candidates[i][2]), Some(delta))
             ELSE NearestLoop_Farthest(candidates, target_epoch, i + 1,
                                       best, best_delta)

\* Mutant: a candidate as near as the best so far replaces it.
RECURSIVE NearestLoop_LastTie(_, _, _, _, _)
NearestLoop_LastTie(candidates, target_epoch, i, best, best_delta) ==
    IF i > Len(candidates) THEN [best |-> best, best_delta |-> best_delta]
    ELSE LET delta == Abs(ts_to_epoch(candidates[i][1]) - target_epoch)
         IN  IF IsNone(best_delta) \/ delta <= The(best_delta)
             THEN NearestLoop_LastTie(candidates, target_epoch, i + 1,
                              Some(candidates[i][2]), Some(delta))
             ELSE NearestLoop_LastTie(candidates, target_epoch, i + 1, best, best_delta)

RECURSIVE NearestLoop(_, _, _, _, _)
NearestLoop(candidates, target_epoch, i, best, best_delta) ==
    IF i > Len(candidates) THEN [best |-> best, best_delta |-> best_delta]
    ELSE LET delta == Abs(ts_to_epoch(candidates[i][1]) - target_epoch)
         IN  IF IsNone(best_delta) \/ delta < The(best_delta)
             THEN NearestLoop(candidates, target_epoch, i + 1,
                              Some(candidates[i][2]), Some(delta))
             ELSE NearestLoop(candidates, target_epoch, i + 1, best, best_delta)

\* Mutant: a candidate at exactly max_skew_s is refused.
nearest_by_time_StrictSkew(candidates, target_epoch, max_skew_s) ==
    LET r == NearestLoop(candidates, target_epoch, 1, None, None)
    IN  IF ~IsNone(r.best_delta) /\ The(r.best_delta) < max_skew_s * 1000000
        THEN r.best
        ELSE None

\* Mutant: the skew test is dropped.
nearest_by_time_NoSkew(candidates, target_epoch, max_skew_s) ==
    NearestLoop(candidates, target_epoch, 1, None, None).best

nearest_by_time(candidates, target_epoch, max_skew_s) ==
    LET r == NearestLoop(candidates, target_epoch, 1, None, None)
    IN  IF ~IsNone(r.best_delta) /\ The(r.best_delta) <= max_skew_s * 1000000
        THEN r.best
        ELSE None

\* {ts: data["shelly"] for ts, data in timeline.items() if "shelly" in data}
shelly_only(tl) ==
    SelectSeq([i \in 1..Len(tl) |-> <<tl[i][1], tl[i][1]>>],
              LAMBDA kv : ~IsNone(DictGet(tl, kv[1]).shelly))

\* Mutant: every timestamp of the timeline is taken to bear services.
service_only_AllKeys(tl) ==
    [i \in 1..Len(tl) |-> <<tl[i][1], tl[i][1]>>]

\* {ts: data["services"] for ts, data in timeline.items() if "services" in data}
service_only(tl) ==
    SelectSeq([i \in 1..Len(tl) |-> <<tl[i][1], tl[i][1]>>],
              LAMBDA kv : ~IsNone(DictGet(tl, kv[1]).services))

RECURSIVE AlignLoop(_, _, _, _, _)
AlignLoop(svc, pow, skew, i, al) ==
    IF i > Len(svc) THEN al
    ELSE LET ts           == svc[i][1]
             shelly_match == nearest_by_time(pow, ts_to_epoch(ts), skew)
         IN  IF IsNone(shelly_match)
             THEN AlignLoop(svc, pow, skew, i + 1, al)
             ELSE AlignLoop(svc, pow, skew, i + 1,
                            DictSet(al, ts, [shelly   |-> The(shelly_match),
                                             services |-> svc[i][2]]))

align_timeline(tl, skew) ==
    AlignLoop(service_only(tl), shelly_only(tl), skew, 1, <<>>)

\* Dereferencing an aligned entry in the heap
ShellyOf(tl, e) == The(DictGet(tl, e.shelly).shelly)
ServicesOf(tl, e) == The(DictGet(tl, e.services).services)

--------------------------------------------------------------------------
(* attribute: mutates the service readings in place *)

RECURSIVE SumCpu(_, _)
SumCpu(services, i) ==
    IF i > Len(services) THEN 0
    ELSE services[i][2].cpu_cores_used + SumCpu(services, i + 1)

cpu_total_of(services) == SumCpu(services, 1)

Zero == [num |-> 0, den |-> 1]

\* Mutant: the share is taken of the host's 4 cores, not of the total in use.
Share_OfHost(cpu, cpu_total, shelly_power) ==
    [num |-> cpu * shelly_power, den |-> 4000]

\* frac = cpu / cpu_total; frac * shelly_power
Share(cpu, cpu_total, shelly_power) ==
    [num |-> cpu * shelly_power, den |-> cpu_total]

\* Mutant: only an exactly idle instant is treated as idle.
SetEstimates_ZeroOnly(services, cpu_total, shelly_power, epsilon) ==
    [i \in 1..Len(services) |->
        <<services[i][1],
          [services[i][2] EXCEPT !.estimated =
              Some(IF cpu_total = 0 THEN Zero
                   ELSE Share(services[i][2].cpu_cores_used, cpu_total,
                              shelly_power))]>>]

\* Mutant: the reading is rebuilt around the estimate and loses its CPU value.
SetEstimates_Rebuilds(services, cpu_total, shelly_power, epsilon) ==
    [i \in 1..Len(services) |->
        <<services[i][1],
          [cpu_cores_used |-> 0,
           estimated |->
              Some(IF cpu_total < epsilon THEN Zero
                   ELSE Share(services[i][2].cpu_cores_used, cpu_total,
                              shelly_power))]>>]

\* Mutant: a total exactly at epsilon is treated as idle too.
SetEstimates_AtMost(services, cpu_total, shelly_power, epsilon) ==
    [i \in 1..Len(services) |->
        <<services[i][1],
          [services[i][2] EXCEPT !.estimated =
              Some(IF cpu_total <= epsilon THEN Zero
                   ELSE Share(services[i][2].cpu_cores_used, cpu_total,
                              shelly_power))]>>]

SetEstimates(services, cpu_total, shelly_power, epsilon) ==
    [i \in 1..Len(services) |->
        <<services[i][1],
          [services[i][2] EXCEPT !.estimated =
              Some(IF cpu_total < epsilon THEN Zero
                   ELSE Share(services[i][2].cpu_cores_used, cpu_total,
                              shelly_power))]>>]

\* The division raises ZeroDivisionError when the total is 0 and is not
\* below epsilon.
Raises(services, epsilon) ==
    cpu_total_of(services) >= epsilon /\ cpu_total_of(services) = 0

RECURSIVE AttributeLoop(_, _, _, _)
AttributeLoop(al, epsilon, i, tl) ==
    IF i > Len(al) THEN [timeline |-> tl, raised |-> FALSE]
    ELSE LET services == ServicesOf(tl, al[i][2])
             power    == ShellyOf(tl, al[i][2]).power_w
             key      == al[i][2].services
             e        == DictGet(tl, key)
         IN  IF Raises(services, epsilon)
             THEN [timeline |-> tl, raised |-> TRUE]
             ELSE AttributeLoop(al, epsilon, i + 1,
                    DictSet(tl, key,
                        [e EXCEPT !.services =
                            Some(SetEstimates(services, cpu_total_of(services),
                                              power, epsilon))]))

attribute(al, epsilon, tl) == AttributeLoop(al, epsilon, 1, tl)

--------------------------------------------------------------------------
(* export_per_service: a reading is {"ts": ts, **s} *)

Reading(ts, s) ==
    [ts |-> ts, cpu_cores_used |-> s.cpu_cores_used, estimated |-> s.estimated]

\* Mutant: the service's list is replaced, not appended to.
AppendTo_Overwrite(out, service, reading) ==
    DictSet(out, service, <<reading>>)

\* out.setdefault(service, []).append(reading)
AppendTo(out, service, reading) ==
    DictSet(out, service,
            Append(IF DictHas(out, service) THEN DictGet(out, service) ELSE <<>>,
                   reading))

RECURSIVE ServicesLoop(_, _, _, _)
ServicesLoop(ts, services, j, out) ==
    IF j > Len(services) THEN out
    ELSE ServicesLoop(ts, services, j + 1,
                      AppendTo(out, services[j][1], Reading(ts, services[j][2])))

RECURSIVE ExportLoop(_, _, _, _)
ExportLoop(al, tl, i, out) ==
    IF i > Len(al) THEN out
    ELSE ExportLoop(al, tl, i + 1,
                    ServicesLoop(al[i][1], ServicesOf(tl, al[i][2]), 1, out))

export_per_service(al, tl) == ExportLoop(al, tl, 1, <<>>)

--------------------------------------------------------------------------
(* The pipeline as run_experiment.main drives it *)

ShellySample(t, p) == [ts |-> TsStr(t), power_w |-> p]
CpuSample(t, c) == [ts |-> TsStr(t), cpu_cores_used |-> c]

ShellySampleKinds == {ShellySample(t, p) : t \in Times, p \in PowerValues}
CpuSampleKinds == {CpuSample(t, c) : t \in Times, c \in CpuValues}

PipeInputs ==
    /\ pc = "loaded"
    /\ shelly_samples \in SeqsUpTo(ShellySampleKinds, MaxSamples)
    /\ \E a \in SeqsUpTo(CpuSampleKinds, MaxSamples - Len(shelly_samples)) :
       \E b \in SeqsUpTo(CpuSampleKinds,
                         MaxSamples - Len(shelly_samples) - Len(a)) :
          cadvisor_by_service = << <<ServiceOrder[1], a>>, <<ServiceOrder[2], b>> >>
    /\ max_time_skew_s \in SkewChoices
    /\ cpu_epsilon_cores \in EpsilonChoices
    /\ timeline = <<>>
    /\ aligned = <<>>
    /\ per_service = <<>>

\* The same second written with a fraction
TsFrac(w) == [wall |-> w, hasFrac |-> TRUE, micro |-> 500000, hasOff |-> TRUE, off |-> 0]

RawTimes == {TsStr(0), TsStr(1), TsFrac(0)}

\* The records a power log can hold: readings, readings with a timestamp
\* that does not parse, the sampler's error records, records without ts.
ShellyRecordKinds ==
    {[ts |-> t, power_w |-> p] : t \in RawTimes, p \in PowerValues}
    \cup {[ts |-> Unparsable, power_w |-> 10],
          [ts |-> TsStr(0), error |-> "read failed"],
          [ts |-> Unparsable, error |-> "read failed"],
          [power_w |-> 10]}

\* The records a CPU file can hold
CpuRecordKinds ==
    {[ts |-> t, cpu_cores_used |-> c] : t \in RawTimes, c \in {5, 10}}
    \cup {[ts |-> Unparsable, cpu_cores_used |-> 5],
          [ts |-> TsStr(0), cpu_percent_host |-> 50],
          [cpu_cores_used |-> 5]}

\* build_timeline handed records of every kind
BuildInputs ==
    /\ pc = "loaded"
    /\ shelly_samples \in SeqsUpTo(ShellyRecordKinds, MaxSamples)
    /\ \E a \in SeqsUpTo(CpuRecordKinds, MaxSamples - Len(shelly_samples)) :
       \E b \in SeqsUpTo(CpuRecordKinds,
                         MaxSamples - Len(shelly_samples) - Len(a)) :
          cadvisor_by_service = << <<ServiceOrder[1], a>>, <<ServiceOrder[2], b>> >>
    /\ max_time_skew_s = 1
    /\ cpu_epsilon_cores = DefaultCpuEpsilon
    /\ timeline = <<>>
    /\ aligned = <<>>
    /\ per_service = <<>>

BuildTimeline ==
    /\ pc = "loaded"
    /\ IF build_timeline_raises(shelly_samples, cadvisor_by_service)
       THEN /\ pc' = "build_raised"
            /\ UNCHANGED timeline
       ELSE /\ timeline' = build_timeline(shelly_samples, cadvisor_by_service)
            /\ pc' = "built"
    /\ UNCHANGED <<shelly_samples, cadvisor_by_service, max_time_skew_s,
                   cpu_epsilon_cores, aligned, per_service>>
    /\ UNCHANGED notPipe

AlignTimeline ==
    /\ pc = "built"
    /\ aligned' = align_timeline(timeline, max_time_skew_s)
    /\ pc' = "aligned"
    /\ UNCHANGED <<shelly_samples, cadvisor_by_service, max_time_skew_s,
                   cpu_epsilon_cores, timeline, per_service>>
    /\ UNCHANGED notPipe

Attribute ==
    /\ pc = "aligned"
    /\ LET r == attribute(aligned, cpu_epsilon_cores, timeline)
       IN  /\ timeline' = r.timeline
           /\ pc' = IF r.raised THEN "raised" ELSE "attributed"
    /\ UNCHANGED <<shelly_samples, cadvisor_by_service, max_time_skew_s,
                   cpu_epsilon_cores, aligned, per_service>>
    /\ UNCHANGED notPipe

ExportPerService ==
    /\ pc = "attributed"
    /\ per_service' = export_per_service(aligned, timeline)
    /\ pc' = "exported"
    /\ UNCHANGED <<shelly_samples, cadvisor_by_service, max_time_skew_s,
                   cpu_epsilon_cores, timeline, aligned>>
    /\ UNCHANGED notPipe

PipeIdle ==
    /\ pc = "idle"
    /\ shelly_samples = <<>>
    /\ cadvisor_by_service = <<>>
    /\ max_time_skew_s = 5
    /\ cpu_epsilon_cores = DefaultCpuEpsilon
    /\ timeline = <<>>
    /\ aligned = <<>>
    /\ per_service = <<>>

NextPipe == BuildTimeline \/ AlignTimeline \/ Attribute \/ ExportPerService

--------------------------------------------------------------------------
(* The same samples handed to the pipeline in another order *)

\* build_timeline, align_timeline, attribute as main chains them
pipeline(samples, by_service, skew, epsilon) ==
    LET tl == build_timeline(samples, by_service)
        al == align_timeline(tl, skew)
        r  == attribute(al, epsilon, tl)
    IN  [timeline |-> r.timeline, aligned |-> al, raised |-> r.raised]

Reorderings(list) == {[i \in 1..Len(list) |-> list[f[i]]] : f \in Permutations(1..Len(list))}

\* No two samples of the list have the same normalized timestamp
DistinctTimes(list) ==
    \A i, j \in 1..Len(list) :
        normalize_ts(list[i].ts) = normalize_ts(list[j].ts) => i = j

OrderIdle ==
    /\ reordered = None
    /\ reordered_result = None

\* The streams of PipeInputs without repeated timestamps, and a reordering
\* of each stream and of the services.  One skew is enough here: with 1 s
\* some readings are in reach, some are not, and two can be equally near.
OrderInputs ==
    /\ PipeInputs
    /\ max_time_skew_s = 1
    /\ DistinctTimes(shelly_samples)
    /\ \A j \in 1..Len(cadvisor_by_service) : DistinctTimes(cadvisor_by_service[j][2])
    /\ \E s \in Reorderings(shelly_samples) :
       \E a \in Reorderings(cadvisor_by_service[1][2]) :
       \E b \in Reorderings(cadvisor_by_service[2][2]) :
       \E by \in Reorderings(<< <<ServiceOrder[1], a>>, <<ServiceOrder[2], b>> >>) :
          /\ s # shelly_samples \/ by # cadvisor_by_service
          /\ reordered = Some([shelly_samples |-> s, cadvisor_by_service |-> by])
    /\ reordered_result = None

\* The pipeline on the reordered samples, once the first run is over
RunReordered ==
    /\ pc \in {"attributed", "raised"}
    /\ ~IsNone(reordered)
    /\ IsNone(reordered_result)
    /\ reordered_result' = Some(pipeline(The(reordered).shelly_samples,
                                         The(reordered).cadvisor_by_service,
                                         max_time_skew_s, cpu_epsilon_cores))
    /\ UNCHANGED <<pipeVars, reordered, fneVars, ntVars, runVars>>

NextOrder == BuildTimeline \/ AlignTimeline \/ Attribute \/ RunReordered

--------------------------------------------------------------------------
(* Two power samples around one instant of two busy services *)

\* CPU of a busy service, millicores
BusyCpuValues == {500, 1000}

\* Two power samples at different times, in either order, and one CPU
\* sample of each service at a common time
TieInputs ==
    /\ pc = "loaded"
    /\ \E t1, t2 \in Times : \E p1, p2 \in PowerValues :
          /\ t1 # t2
          /\ shelly_samples = <<ShellySample(t1, p1), ShellySample(t2, p2)>>
    /\ \E t \in Times : \E ca, cb \in BusyCpuValues :
          cadvisor_by_service = << <<ServiceOrder[1], <<CpuSample(t, ca)>> >>,
                                   <<ServiceOrder[2], <<CpuSample(t, cb)>> >> >>
    /\ max_time_skew_s \in SkewChoices
    /\ cpu_epsilon_cores \in EpsilonChoices
    /\ timeline = <<>>
    /\ aligned = <<>>
    /\ per_service = <<>>

--------------------------------------------------------------------------
(* PrometheusAdapter.range and _first_non_empty.  A response is what the   *)
(* backend does with one candidate query: the request fails (connection    *)
(* error, HTTP error status, malformed body), or it yields the value of    *)
(* data.result.                                                            *)

Failing == [raises |-> TRUE]
Yields(v) == [raises |-> FALSE, data |-> v]
EmptyList == [is_list |-> TRUE, items |-> <<>>]
Series(i) == [is_list |-> TRUE, items |-> <<i>>]
NotAList(i) == [is_list |-> FALSE, items |-> <<i>>]

ResponsesTo(i) == {Failing, Yields(EmptyList), Yields(Series(i)), Yields(NotAList(i))}

\* r.raise_for_status(); return r.json()["data"]["result"]
range(response) ==
    IF response.raises THEN [raised |-> TRUE]
    ELSE [raised |-> FALSE, data |-> response.data]

\* Mutant: any list is accepted, an empty one too.
Accepted_AnyList(data) == data.is_list

\* isinstance(data, list) and len(data) > 0
Accepted(data) == data.is_list /\ Len(data.items) > 0

FneInputs ==
    /\ fne_pc = "loop"
    /\ \E n \in 0..MaxCandidates :
          responses \in {r \in [1..n -> UNION {ResponsesTo(i) : i \in 1..n}] :
                            \A i \in 1..n : r[i] \in ResponsesTo(i)}
    /\ fne_i = 1
    /\ fne_calls = <<>>
    /\ fne_result = None

FneIdle ==
    /\ fne_pc = "idle"
    /\ responses = <<>>
    /\ fne_i = 1
    /\ fne_calls = <<>>
    /\ fne_result = None

\* One iteration of the loop whose query returns.
QueryReturns ==
    /\ fne_pc = "loop"
    /\ fne_i <= Len(responses)
    /\ LET r == range(responses[fne_i])
       IN  /\ ~r.raised
           /\ fne_calls' = Append(fne_calls, fne_i)
           /\ IF Accepted(r.data)
              THEN /\ fne_result' = Some(r.data)
                   /\ fne_pc' = "returned"
                   /\ UNCHANGED fne_i
              ELSE /\ fne_i' = fne_i + 1
                   /\ UNCHANGED <<fne_result, fne_pc>>
    /\ UNCHANGED responses
    /\ UNCHANGED notFne

\* One iteration whose query raises: nothing in _first_non_empty handles it.
QueryRaises ==
    /\ fne_pc = "loop"
    /\ fne_i <= Len(responses)
    /\ range(responses[fne_i]).raised
    /\ fne_calls' = Append(fne_calls, fne_i)
    /\ fne_pc' = "raised"
    /\ UNCHANGED <<responses, fne_i, fne_result>>
    /\ UNCHANGED notFne

\* The list is exhausted: return []
ReturnEmpty ==
    /\ fne_pc = "loop"
    /\ fne_i > Len(responses)
    /\ fne_result' = Some(EmptyList)
    /\ fne_pc' = "returned"
    /\ UNCHANGED <<responses, fne_i, fne_calls>>
    /\ UNCHANGED notFne

NextFne == QueryReturns \/ QueryRaises \/ ReturnEmpty

--------------------------------------------------------------------------
(* normalize_ts applied to its own output *)

TsStrings ==
    {[wall |-> w, hasFrac |-> f, micro |-> m, hasOff |-> o, off |-> z] :
        w \in 0..MaxWall, f \in BOOLEAN, m \in {0, 1, 500000},
        o \in BOOLEAN, z \in {-3600, 0, 3600, 19800}}

\* Strings as they are written: no fraction spells no digits, no offset no zone.
WellFormed(s) == (~s.hasFrac => s.micro = 0) /\ (~s.hasOff => s.off = 0)

NtInputs ==
    /\ nt_pc = "input"
    /\ nt_input \in {s \in TsStrings : WellFormed(s)}
    /\ nt_once = None
    /\ nt_twice = None

NtIdle ==
    /\ nt_pc = "idle"
    /\ nt_input = None
    /\ nt_once = None
    /\ nt_twice = None

NormalizeOnce ==
    /\ nt_pc = "input"
    /\ nt_once' = Some(normalize_ts(nt_input))
    /\ nt_pc' = "once"
    /\ UNCHANGED <<nt_input, nt_twice>>
    /\ UNCHANGED notNt

NormalizeTwice ==
    /\ nt_pc = "once"
    /\ nt_twice' = Some(normalize_ts(The(nt_once)))
    /\ nt_pc' = "twice"
    /\ UNCHANGED <<nt_input, nt_once>>
    /\ UNCHANGED notNt

NextNt == NormalizeOnce \/ NormalizeTwice

--------------------------------------------------------------------------
(* ShellyAdapter: the sampler object and its threads.  A thread is at      *)
(* "open" (started, about to open the log), "test" (at the while test),    *)
(* "poll" (reading the meter), "write" (holding the record to append),     *)
(* "sleep", "exited" (loop left, file closed) or "died" (the log could not *)
(* be opened).  Each thread appends through its own handle of the log.     *)

\* ShellyAdapter.__init__
NewAdapter == [run |-> FALSE, thr |-> None, out_path |-> None, hz |-> 1]

\* Mutant: start() forgets to set the run flag.
start_NoFlag(self, out_path, hz, thread_id) ==
    IF self.run THEN self
    ELSE [run |-> FALSE, thr |-> Some(thread_id), out_path |-> Some(out_path),
          hz |-> hz]

\* Mutant: start() without its guard.
start_Unguarded(self, out_path, hz, thread_id) ==
    [run |-> TRUE, thr |-> Some(thread_id), out_path |-> Some(out_path),
     hz |-> hz]

\* ShellyAdapter.start: the adapter after the call; a thread is created
\* exactly when the adapter was not running.
start(self, out_path, hz, thread_id) ==
    IF self.run THEN self
    ELSE [run |-> TRUE, thr |-> Some(thread_id), out_path |-> Some(out_path),
          hz |-> hz]

\* ShellyAdapter.stop up to the join: the adapter after
\* "if not self._run: return; self._run = False"
stop(self) ==
    IF ~self.run THEN self
    ELSE [self EXCEPT !.run = FALSE]

Adapter == The(shelly)

\* threading.Thread(target=self._loop): rec is the loop's local variable
NewThread == [pc |-> "open", rec |-> None]

\* datetime.now(timezone.utc).replace(microsecond=0).isoformat()
now_iso == TsStr(clock)

\* The sampler thread opens its log: _out_path.open("a")
T_Open(t) ==
    /\ threads[t].pc = "open"
    /\ threads' = [threads EXCEPT ![t].pc = "test"]
    /\ UNCHANGED <<m_pc, raised_at, shelly_configured, shelly, power_log,
                   locust_artifacts, summary, phases, stop_calls>>
    /\ UNCHANGED <<clock, notRun>>

\* ... or fails to (OSError): the thread ends, the run flag stays as it is.
T_OpenFails(t) ==
    /\ threads[t].pc = "open"
    /\ threads' = [threads EXCEPT ![t].pc = "died"]
    /\ UNCHANGED <<m_pc, raised_at, shelly_configured, shelly, power_log,
                   locust_artifacts, summary, phases, stop_calls>>
    /\ UNCHANGED <<clock, notRun>>

\* while self._run
T_Test(t) ==
    /\ threads[t].pc = "test"
    /\ threads' = [threads EXCEPT ![t].pc =
                      IF Adapter.run THEN "poll" ELSE "exited"]
    /\ UNCHANGED <<m_pc, raised_at, shelly_configured, shelly, power_log,
                   locust_artifacts, summary, phases, stop_calls>>
    /\ UNCHANGED <<clock, notRun>>

\* Mutant: no except clause around the read, a failed read ends the thread.
T_Poll_Unhandled(t) ==
    /\ threads[t].pc = "poll"
    /\ \/ threads' = [threads EXCEPT ![t].pc = "write",
                          ![t].rec = Some([ts |-> now_iso, power_w |-> 10])]
       \/ threads' = [threads EXCEPT ![t].pc = "died"]
    /\ UNCHANGED <<m_pc, raised_at, shelly_configured, shelly, power_log,
                   locust_artifacts, summary, phases, stop_calls>>
    /\ UNCHANGED <<clock, notRun>>

\* rec = self._read_once(), or the error record when it raises
T_Poll(t) ==
    /\ threads[t].pc = "poll"
    /\ \E rec \in {[ts |-> now_iso, power_w |-> 10],
                    [ts |-> now_iso, error |-> "read failed"]} :
          threads' = [threads EXCEPT ![t].pc = "write", ![t].rec = Some(rec)]
    /\ UNCHANGED <<m_pc, raised_at, shelly_configured, shelly, power_log,
                   locust_artifacts, summary, phases, stop_calls>>
    /\ UNCHANGED <<clock, notRun>>

\* f.write(json.dumps(rec) + "\n"); f.flush()
T_Write(t) ==
    /\ threads[t].pc = "write"
    /\ Len(power_log) < MaxLog
    /\ power_log' = Append(power_log, The(threads[t].rec))
    /\ threads' = [threads EXCEPT ![t].pc = "sleep"]
    /\ UNCHANGED <<m_pc, raised_at, shelly_configured, shelly,
                   locust_artifacts, summary, phases, stop_calls>>
    /\ UNCHANGED <<clock, notRun>>

\* time.sleep(period) returns
T_Wake(t) ==
    /\ threads[t].pc = "sleep"
    /\ threads' = [threads EXCEPT ![t].pc = "test"]
    /\ UNCHANGED <<m_pc, raised_at, shelly_configured, shelly, power_log,
                   locust_artifacts, summary, phases, stop_calls>>
    /\ UNCHANGED <<clock, notRun>>

\* Time passes
Tick ==
    /\ clock < MaxClock
    /\ clock' = clock + 1
    /\ UNCHANGED <<m_pc, raised_at, shelly_configured, shelly, threads, power_log,
                   locust_artifacts, summary, phases, stop_calls>>
    /\ UNCHANGED notRun

--------------------------------------------------------------------------
(* run_experiment.main, statement by statement from the sampler's start.   *)
(* The statements after the call of export_core_series are never reached   *)
(* (the call passes six positional arguments to a function of five, which  *)
(* raises TypeError), so the model has no action for them.                 *)

\* The rest of a statement of main that touches nothing the model keeps
GoTo(to) ==
    /\ m_pc' = to
    /\ UNCHANGED raised_at
    /\ UNCHANGED <<shelly_configured, shelly, threads, power_log,
                   locust_artifacts, summary, phases, stop_calls>>
    /\ UNCHANGED <<clock, notRun>>

\* An exception leaves main at the statement it is at
Raise ==
    /\ m_pc' = "raised"
    /\ raised_at' = Some(m_pc)
    /\ UNCHANGED <<shelly_configured, shelly, threads, power_log,
                   locust_artifacts, summary, phases, stop_calls>>
    /\ UNCHANGED <<clock, notRun>>

RunInputs ==
    /\ m_pc = "begin"
    /\ raised_at = None
    /\ shelly_configured \in BOOLEAN
    /\ shelly = None
    /\ threads = <<>>
    /\ clock = 0
    /\ power_log = <<>>
    /\ locust_artifacts = None
    /\ summary = None
    /\ phases = <<>>
    /\ stop_calls = 0

RunIdle ==
    /\ m_pc = "idle"
    /\ raised_at = None
    /\ shelly_configured = FALSE
    /\ shelly = None
    /\ threads = <<>>
    /\ clock = 0
    /\ power_log = <<>>
    /\ locust_artifacts = None
    /\ summary = None
    /\ phases = <<>>
    /\ stop_calls = 0

\* if args.shelly: shelly = ShellyAdapter(...); shelly.start(...)
M_StartSampler ==
    /\ m_pc = "begin"
    /\ shelly_configured
    /\ shelly' = Some(start(NewAdapter, "power.jsonl", 1, Len(threads) + 1))
    /\ threads' = Append(threads, NewThread)
    /\ phases' = Append(phases, "sampler_start")
    /\ m_pc' = "warm_up"
    /\ UNCHANGED <<raised_at, shelly_configured, power_log, locust_artifacts, summary,
                   stop_calls>>
    /\ UNCHANGED <<clock, notRun>>

\* no --shelly: shelly stays None
M_NoSampler ==
    /\ m_pc = "begin"
    /\ ~shelly_configured
    /\ GoTo("runtime_info")

\* time.sleep(3)
M_WarmUp ==
    /\ m_pc = "warm_up"
    /\ phases' = Append(phases, "warm_up")
    /\ m_pc' = "runtime_info"
    /\ UNCHANGED <<raised_at, shelly_configured, shelly, threads, power_log,
                   locust_artifacts, summary, stop_calls>>
    /\ UNCHANGED <<clock, notRun>>

\* get_container_runtime_info: returns the map, or {} when ssh fails,
M_RuntimeInfo ==
    /\ m_pc = "runtime_info"
    /\ GoTo("parse_duration")
\* or raises on an output line it cannot split or convert.
M_RuntimeInfoRaises ==
    /\ m_pc = "runtime_info"
    /\ Raise

\* parse_duration(scenario["run_time"])
M_ParseDuration ==
    /\ m_pc = "parse_duration"
    /\ GoTo("popen")
M_ParseDurationRaises ==
    /\ m_pc = "parse_duration"
    /\ Raise

\* sp.Popen(ssh_cmd)
M_Popen ==
    /\ m_pc = "popen"
    /\ GoTo("start_iso")
M_PopenRaises ==
    /\ m_pc = "popen"
    /\ Raise

\* start_iso = iso_now()
M_StartIso ==
    /\ m_pc = "start_iso"
    /\ phases' = Append(phases, "record_start")
    /\ m_pc' = "call_workload"
    /\ UNCHANGED <<raised_at, shelly_configured, shelly, threads, power_log,
                   locust_artifacts, summary, stop_calls>>
    /\ UNCHANGED <<clock, notRun>>

\* locust.run(...) is entered
M_CallWorkload ==
    /\ m_pc = "call_workload"
    /\ phases' = Append(phases, "workload")
    /\ m_pc' = "in_workload"
    /\ UNCHANGED <<raised_at, shelly_configured, shelly, threads, power_log,
                   locust_artifacts, summary, stop_calls>>
    /\ UNCHANGED <<clock, notRun>>

\* locust.run(...) returns its artifact paths
M_WorkloadReturns ==
    /\ m_pc = "in_workload"
    /\ locust_artifacts' = Some([stats_csv |-> "locust_stats.csv"])
    /\ m_pc' = "end_iso"
    /\ UNCHANGED <<raised_at, shelly_configured, shelly, threads, power_log, summary,
                   phases, stop_calls>>
    /\ UNCHANGED <<clock, notRun>>

\* Mutant: no except clause around the workload call.
M_WorkloadRaises_Propagates ==
    /\ m_pc = "in_workload"
    /\ locust_artifacts' = Some([error |-> "Locust failed"])
    /\ m_pc' = "raised"
    /\ raised_at' = Some(m_pc)
    /\ UNCHANGED <<shelly_configured, shelly, threads, power_log, summary,
                   phases, stop_calls>>
    /\ UNCHANGED <<clock, notRun>>

\* locust.run(...) raises: except Exception as e: locust_artifacts = {"error": str(e)}
M_WorkloadRaises ==
    /\ m_pc = "in_workload"
    /\ locust_artifacts' = Some([error |-> "Locust failed"])
    /\ m_pc' = "end_iso"
    /\ UNCHANGED <<raised_at, shelly_configured, shelly, threads, power_log, summary,
                   phases, stop_calls>>
    /\ UNCHANGED <<clock, notRun>>

\* end_iso = iso_now(); if shelly: ...
M_EndIso ==
    /\ m_pc = "end_iso"
    /\ phases' = Append(phases, "record_end")
    /\ m_pc' = IF ~IsNone(shelly) THEN "cool_down" ELSE "copy_powerjoular"
    /\ UNCHANGED <<raised_at, shelly_configured, shelly, threads, power_log,
                   locust_artifacts, summary, stop_calls>>
    /\ UNCHANGED <<clock, notRun>>

\* time.sleep(3)
M_CoolDown ==
    /\ m_pc = "cool_down"
    /\ phases' = Append(phases, "cool_down")
    /\ m_pc' = "stop"
    /\ UNCHANGED <<raised_at, shelly_configured, shelly, threads, power_log,
                   locust_artifacts, summary, stop_calls>>
    /\ UNCHANGED <<clock, notRun>>

\* shelly.stop() up to the join: if not self._run: return; self._run = False
M_Stop ==
    /\ m_pc = "stop"
    /\ stop_calls' = stop_calls + 1
    /\ phases' = Append(phases, "sampler_stop")
    /\ shelly' = Some(stop(Adapter))
    /\ m_pc' = IF Adapter.run /\ ~IsNone(Adapter.thr)
               THEN "join" ELSE "copy_powerjoular"
    /\ UNCHANGED <<raised_at, shelly_configured, threads, power_log, locust_artifacts,
                   summary>>
    /\ UNCHANGED <<clock, notRun>>

\* self._thr.join(timeout=5.0) returns, the thread having ended;
\* self._thr = None
M_JoinReturns ==
    /\ m_pc = "join"
    /\ threads[The(Adapter.thr)].pc \in {"exited", "died"}
    /\ shelly' = Some([Adapter EXCEPT !.thr = None])
    /\ m_pc' = "copy_powerjoular"
    /\ UNCHANGED <<raised_at, shelly_configured, threads, power_log, locust_artifacts,
                   summary, phases, stop_calls>>
    /\ UNCHANGED <<clock, notRun>>

\* ... or returns on its timeout with the thread still alive
M_JoinTimesOut ==
    /\ m_pc = "join"
    /\ threads[The(Adapter.thr)].pc \notin {"exited", "died"}
    /\ shelly' = Some([Adapter EXCEPT !.thr = None])
    /\ m_pc' = "copy_powerjoular"
    /\ UNCHANGED <<raised_at, shelly_configured, threads, power_log, locust_artifacts,
                   summary, phases, stop_calls>>
    /\ UNCHANGED <<clock, notRun>>

\* scp of the PowerJoular directory; a failure is caught and printed
M_CopyPowerJoular ==
    /\ m_pc = "copy_powerjoular"
    /\ GoTo("detect_run_dir")

\* run_dirs is not empty,
M_DetectRunDir ==
    /\ m_pc = "detect_run_dir"
    /\ GoTo("parse_csvs")
\* or: raise RuntimeError("No PowerJoular run directory found")
M_NoRunDir ==
    /\ m_pc = "detect_run_dir"
    /\ Raise

\* parse_powerjoular_csv of each file and the two json.dump
M_ParseCsvs ==
    /\ m_pc = "parse_csvs"
    /\ GoTo("cpu_fraction")
M_ParseCsvsRaises ==
    /\ m_pc = "parse_csvs"
    /\ Raise

\* cadv.cpu_map_fraction_over_period(...) and its json.dump
M_CpuFraction ==
    /\ m_pc = "cpu_fraction"
    /\ GoTo("cpu_timeseries")
M_CpuFractionRaises ==
    /\ m_pc = "cpu_fraction"
    /\ Raise

\* cadv.cpu_usage_raspberry_per_service_timeseries(...) and its json.dump
M_CpuTimeseries ==
    /\ m_pc = "cpu_timeseries"
    /\ GoTo("export_core_series")
M_CpuTimeseriesRaises ==
    /\ m_pc = "cpu_timeseries"
    /\ Raise

\* export_core_series(prom, start_iso, end_iso, args.step, prom_files,
\* args.window): six arguments for five parameters, TypeError
M_ExportCoreSeries ==
    /\ m_pc = "export_core_series"
    /\ Raise

NextThread ==
    \/ \E t \in 1..Len(threads) : T_Open(t)
    \/ \E t \in 1..Len(threads) : T_OpenFails(t)
    \/ \E t \in 1..Len(threads) : T_Test(t)
    \/ \E t \in 1..Len(threads) : T_Poll(t)
    \/ \E t \in 1..Len(threads) : T_Write(t)
    \/ \E t \in 1..Len(threads) : T_Wake(t)
    \/ Tick

NextMain ==
    \/ M_StartSampler \/ M_NoSampler \/ M_WarmUp
    \/ M_RuntimeInfo \/ M_RuntimeInfoRaises
    \/ M_ParseDuration \/ M_ParseDurationRaises
    \/ M_Popen \/ M_PopenRaises
    \/ M_StartIso \/ M_CallWorkload \/ M_WorkloadReturns \/ M_WorkloadRaises
    \/ M_EndIso \/ M_CoolDown \/ M_Stop \/ M_JoinReturns \/ M_JoinTimesOut
    \/ M_CopyPowerJoular \/ M_DetectRunDir \/ M_NoRunDir
    \/ M_ParseCsvs \/ M_ParseCsvsRaises
    \/ M_CpuFraction \/ M_CpuFractionRaises
    \/ M_CpuTimeseries \/ M_CpuTimeseriesRaises
    \/ M_ExportCoreSeries

NextRun == NextMain \/ NextThread

--------------------------------------------------------------------------
(* One ShellyAdapter under a caller that issues start() and stop() in any  *)
(* order.  phases is the history of the calls made.                        *)

HzChoices == {1, 2}

SamplerInputs ==
    /\ m_pc = "caller"
    /\ raised_at = None
    /\ shelly_configured = TRUE
    /\ shelly = Some(NewAdapter)
    /\ threads = <<>>
    /\ clock = 0
    /\ power_log = <<>>
    /\ locust_artifacts = None
    /\ summary = None
    /\ phases = <<>>
    /\ stop_calls = 0

\* shelly.start(out_path=..., hz=...)
S_Start ==
    /\ m_pc = "caller"
    /\ Len(phases) < MaxCalls
    /\ \E hz \in HzChoices :
          LET after == start(Adapter, "power.jsonl", hz, Len(threads) + 1)
          IN  /\ shelly' = Some(after)
              /\ threads' = IF after.thr = Some(Len(threads) + 1)
                            THEN Append(threads, NewThread)
                            ELSE threads
    /\ phases' = Append(phases, "start")
    /\ UNCHANGED <<m_pc, raised_at, shelly_configured, power_log,
                   locust_artifacts, summary, stop_calls>>
    /\ UNCHANGED <<clock, notRun>>

\* shelly.stop() up to the join
S_Stop ==
    /\ m_pc = "caller"
    /\ Len(phases) < MaxCalls
    /\ shelly' = Some(stop(Adapter))
    /\ m_pc' = IF Adapter.run /\ ~IsNone(Adapter.thr)
               THEN "caller_join" ELSE "caller"
    /\ phases' = Append(phases, "stop")
    /\ UNCHANGED <<raised_at, shelly_configured, threads, power_log,
                   locust_artifacts, summary, stop_calls>>
    /\ UNCHANGED <<clock, notRun>>

\* self._thr.join(timeout=5.0) returns, the thread having ended;
\* self._thr = None
S_JoinReturns ==
    /\ m_pc = "caller_join"
    /\ threads[The(Adapter.thr)].pc \in {"exited", "died"}
    /\ shelly' = Some([Adapter EXCEPT !.thr = None])
    /\ m_pc' = "caller"
    /\ UNCHANGED <<raised_at, shelly_configured, threads, power_log,
                   locust_artifacts, summary, phases, stop_calls>>
    /\ UNCHANGED <<clock, notRun>>

\* Mutant: join() without a timeout keeps waiting for the thread.
S_JoinTimesOut_Waits ==
    /\ m_pc = "caller_join"
    /\ threads[The(Adapter.thr)].pc \notin {"exited", "died"}
    /\ UNCHANGED vars

\* ... or returns on its timeout with the thread still alive
S_JoinTimesOut ==
    /\ m_pc = "caller_join"
    /\ threads[The(Adapter.thr)].pc \notin {"exited", "died"}
    /\ shelly' = Some([Adapter EXCEPT !.thr = None])
    /\ m_pc' = "caller"
    /\ UNCHANGED <<raised_at, shelly_configured, threads, power_log,
                   locust_artifacts, summary, phases, stop_calls>>
    /\ UNCHANGED <<clock, notRun>>

NextCaller == S_Start \/ S_Stop \/ S_JoinReturns \/ S_JoinTimesOut

NextSampler == NextCaller \/ NextThread

--------------------------------------------------------------------------
(* Specifications *)

InitPipe == PipeInputs /\ OrderIdle /\ FneIdle /\ NtIdle /\ RunIdle
Spec == InitPipe /\ [][NextPipe]_vars

InitBuild == BuildInputs /\ OrderIdle /\ FneIdle /\ NtIdle /\ RunIdle
SpecBuild == InitBuild /\ [][NextPipe]_vars

InitOrder == OrderInputs /\ FneIdle /\ NtIdle /\ RunIdle
SpecOrder == InitOrder /\ [][NextOrder]_vars

InitTie == TieInputs /\ OrderIdle /\ FneIdle /\ NtIdle /\ RunIdle
SpecTie == InitTie /\ [][NextPipe]_vars

InitResolve == PipeIdle /\ OrderIdle /\ FneInputs /\ NtIdle /\ RunIdle
SpecResolve == InitResolve /\ [][NextFne]_vars

InitNormalize == PipeIdle /\ OrderIdle /\ FneIdle /\ NtInputs /\ RunIdle
SpecNormalize == InitNormalize /\ [][NextNt]_vars

InitRun == PipeIdle /\ OrderIdle /\ FneIdle /\ NtIdle /\ RunInputs
SpecRun == InitRun /\ [][NextRun]_vars

InitSampler == PipeIdle /\ OrderIdle /\ FneIdle /\ NtIdle /\ SamplerInputs
SpecSampler == InitSampler /\ [][NextSampler]_vars

\* join(timeout=5.0) returns after five seconds at the latest
SpecSamplerFair ==
    SpecSampler /\ WF_vars(S_JoinReturns) /\ WF_vars(S_JoinTimesOut)

--------------------------------------------------------------------------
(* Properties of the attribution pipeline *)

RatEq(a, b) == a.num * b.den = b.num * a.den
RatAdd(a, b) == [num |-> a.num * b.den + b.num * a.den, den |-> a.den * b.den]

RECURSIVE SumEstimated(_, _)
SumEstimated(services, i) ==
    IF i > Len(services) THEN Zero
    ELSE RatAdd(The(services[i][2].estimated), SumEstimated(services, i + 1))

AllEstimated(services) ==
    \A j \in 1..Len(services) : ~IsNone(services[j][2].estimated)

Aligned == pc \in {"aligned", "attributed", "raised", "exported"}

Distance(t1, t2) == Abs(ts_to_epoch(t1) - ts_to_epoch(t2))
WithinSkew(t1, t2) == Distance(t1, t2) <= max_time_skew_s * 1000000

PowerKeys == {timeline[i][1] : i \in {j \in 1..Len(timeline) :
                                        ~IsNone(timeline[j][2].shelly)}}
ServiceKeys == {timeline[i][1] : i \in {j \in 1..Len(timeline) :
                                          ~IsNone(timeline[j][2].services)}}
AlignedKeys == {aligned[i][1] : i \in 1..Len(aligned)}

\* C1: after attribute(), at every aligned instant whose total CPU is at
\* least cpu_epsilon_cores, each service's estimated power is its share
\* cpu_cores_used / cpu_total of the matched power_w, and the estimated
\* powers of the instant's services sum to that power_w.
C1_ShareSumsToPower ==
    pc = "attributed" =>
        \A i \in 1..Len(aligned) :
            LET services == ServicesOf(timeline, aligned[i][2])
                power    == ShellyOf(timeline, aligned[i][2]).power_w
                total    == cpu_total_of(services)
            IN  total >= cpu_epsilon_cores =>
                  /\ AllEstimated(services)
                  /\ \A j \in 1..Len(services) :
                        LET est == The(services[j][2].estimated)
                        IN  est.num * total
                              = services[j][2].cpu_cores_used * power * est.den
                  /\ RatEq(SumEstimated(services, 1), [num |-> power, den |-> 1])

\* C1 witness: an attributed instant with two services of different non-zero
\* CPU whose total reaches epsilon.
C1_Witness ==
    /\ pc = "attributed"
    /\ \E i \in 1..Len(aligned) :
          LET services == ServicesOf(timeline, aligned[i][2])
          IN  /\ Len(services) = 2
              /\ services[1][2].cpu_cores_used = 5
              /\ services[2][2].cpu_cores_used = 10
              /\ cpu_total_of(services) >= cpu_epsilon_cores
              /\ cpu_epsilon_cores = DefaultCpuEpsilon
              /\ ShellyOf(timeline, aligned[i][2]).power_w = 20

\* C2: after attribute(), at every aligned instant whose total CPU is
\* strictly below cpu_epsilon_cores, every service's estimated power is 0,
\* whatever the matched power is.
C2_IdleGetsZero ==
    pc = "attributed" =>
        \A i \in 1..Len(aligned) :
            LET services == ServicesOf(timeline, aligned[i][2])
            IN  cpu_total_of(services) < cpu_epsilon_cores =>
                  /\ AllEstimated(services)
                  /\ \A j \in 1..Len(services) :
                        The(services[j][2].estimated).num = 0

\* C2 witness: an attributed instant below epsilon but not idle, matched to
\* a non-zero power.
C2_Witness ==
    /\ pc = "attributed"
    /\ \E i \in 1..Len(aligned) :
          LET services == ServicesOf(timeline, aligned[i][2])
          IN  /\ cpu_total_of(services) = 5
              /\ cpu_epsilon_cores = DefaultCpuEpsilon
              /\ ShellyOf(timeline, aligned[i][2]).power_w = 20
              /\ AllEstimated(services)

\* C3: align_timeline pairs no service-bearing timestamp with a power reading
\* farther than max_skew seconds away, and a service-bearing timestamp with
\* no power reading within max_skew seconds is absent from the result.
C3_NeverBeyondSkew ==
    Aligned =>
        /\ \A i \in 1..Len(aligned) :
              WithinSkew(aligned[i][1], aligned[i][2].shelly)
        /\ \A t \in ServiceKeys :
              (\A k \in PowerKeys : ~WithinSkew(t, k)) => t \notin AlignedKeys

\* C3 witness: one service-bearing timestamp is matched at exactly max_skew
\* and another, whose only power readings are farther, is dropped.
C3_Witness ==
    /\ pc = "aligned"
    /\ PowerKeys # {}
    /\ \E i \in 1..Len(aligned) :
          Distance(aligned[i][1], aligned[i][2].shelly)
            = max_time_skew_s * 1000000
    /\ \E t \in ServiceKeys : t \notin AlignedKeys

\* C4: the power reading chosen for an aligned instant lives at a
\* power-bearing timestamp of minimal distance: no power-bearing timestamp
\* of the timeline is strictly closer.
C4_ChosenIsNearest ==
    Aligned =>
        \A i \in 1..Len(aligned) :
            /\ aligned[i][2].shelly \in PowerKeys
            /\ \A k \in PowerKeys :
                  Distance(aligned[i][1], aligned[i][2].shelly)
                    <= Distance(aligned[i][1], k)

\* C4 witness: the chosen reading was not the first candidate of the search;
\* an earlier candidate is strictly farther.
C4_Witness ==
    /\ pc = "aligned"
    /\ \E i \in 1..Len(aligned) :
          LET pow == shelly_only(timeline)
          IN  /\ Len(pow) = 2
              /\ pow[2][1] = aligned[i][2].shelly
              /\ Distance(aligned[i][1], pow[1][1])
                   > Distance(aligned[i][1], pow[2][1])

\* C14: every entry of the aligned result has exactly one power reading,
\* a reading of the timeline, and at least one service reading, and aligned
\* entries exist only at timestamps that had a services entry in the
\* timeline: a timestamp carrying power only is never an aligned instant.
C14_AlignedWellFormed ==
    Aligned =>
        /\ \A i \in 1..Len(aligned) :
              /\ aligned[i][1] \in ServiceKeys
              /\ aligned[i][2].services = aligned[i][1]
              /\ aligned[i][2].shelly \in PowerKeys
              /\ Len(ServicesOf(timeline, aligned[i][2])) >= 1
        /\ \A i, j \in 1..Len(aligned) : aligned[i][1] = aligned[j][1] => i = j
        /\ \A k \in PowerKeys \ ServiceKeys : k \notin AlignedKeys

\* C14 witness: an aligned instant with two services took its power from a
\* timestamp that carries power only, and that timestamp is no instant.
C14_Witness ==
    /\ pc = "aligned"
    /\ \E i \in 1..Len(aligned) :
          /\ Len(ServicesOf(timeline, aligned[i][2])) = 2
          /\ aligned[i][2].shelly \in PowerKeys \ ServiceKeys
          /\ aligned[i][2].shelly \notin AlignedKeys

--------------------------------------------------------------------------
(* Properties of export_per_service *)

RECURSIVE SumLen(_, _)
SumLen(d, i) == IF i > Len(d) THEN 0 ELSE Len(d[i][2]) + SumLen(d, i + 1)

\* How many service readings the attributed instants hold together
RECURSIVE SumServices(_)
SumServices(i) ==
    IF i > Len(aligned) THEN 0
    ELSE Len(ServicesOf(timeline, aligned[i][2])) + SumServices(i + 1)

\* C15: for every input, in any input order, each per-service series
\* returned by export_per_service is in chronological order: the timestamps
\* of its readings are non-decreasing along the list.
C15_SeriesChronological ==
    pc = "exported" =>
        \A n \in 1..Len(per_service) :
            LET series == per_service[n][2]
            IN  \A i, j \in 1..Len(series) :
                    i < j => ts_to_epoch(series[i].ts) <= ts_to_epoch(series[j].ts)

\* C16: export_per_service is a pure pivot: for every attributed instant and
\* every service present at it, the service's series holds exactly one
\* reading with the instant's timestamp, carrying the service's CPU and
\* estimated power; the output holds no other reading, so the readings
\* number the sum over the instants of their service counts.
C16_PurePivot ==
    pc = "exported" =>
        /\ \A i \in 1..Len(aligned) :
              LET services == ServicesOf(timeline, aligned[i][2])
              IN  \A j \in 1..Len(services) :
                    /\ DictHas(per_service, services[j][1])
                    /\ LET series == DictGet(per_service, services[j][1])
                           at     == {n \in 1..Len(series) :
                                        series[n].ts = aligned[i][1]}
                       IN  /\ Cardinality(at) = 1
                           /\ \A n \in at :
                                 /\ series[n].cpu_cores_used
                                      = services[j][2].cpu_cores_used
                                 /\ series[n].estimated = services[j][2].estimated
        /\ \A m \in 1..Len(per_service) : \A n \in 1..Len(per_service[m][2]) :
              /\ per_service[m][2][n].ts \in AlignedKeys
              /\ DictHas(ServicesOf(timeline,
                                    DictGet(aligned, per_service[m][2][n].ts)),
                         per_service[m][1])
        /\ SumLen(per_service, 1) = SumServices(1)

\* C16 witness: two attributed instants of one service, with a non-zero
\* estimate, were pivoted into a series of two readings.
C16_Witness ==
    /\ pc = "exported"
    /\ Len(aligned) = 2
    /\ Len(per_service) = 1
    /\ Len(per_service[1][2]) = 2
    /\ per_service[1][2][1].ts # per_service[1][2][2].ts
    /\ The(per_service[1][2][2].estimated).num > 0

--------------------------------------------------------------------------
(* Properties of build_timeline *)

HasFields(s, metric) == "ts" \in DOMAIN s /\ metric \in DOMAIN s

\* The positions of the records of a list that carry ts and the metric
Complete(samples, metric) ==
    {i \in 1..Len(samples) : HasFields(samples[i], metric)}

\* ... and of those that normalize to the timestamp k
WrittenAt(samples, metric, k) ==
    {i \in Complete(samples, metric) : normalize_ts(samples[i].ts) = k}

Last(S) == CHOOSE i \in S : \A j \in S : j <= i

ParsableOnly(samples) ==
    SelectSeq(samples, LAMBDA s : "ts" \in DOMAIN s => Parses(s.ts))

TimelineKeys == {timeline[i][1] : i \in 1..Len(timeline)}

\* The timestamps at which the timeline holds a reading of a service
KeysOf(service) ==
    {k \in ServiceKeys : DictHas(The(DictGet(timeline, k).services), service)}

\* C11: a power or CPU sample whose timestamp cannot be parsed is dropped by
\* build_timeline without aborting: no error reaches the caller and the
\* timeline returned is the one built from all the other samples.
C11_UnparsableDropped ==
    /\ pc # "build_raised"
    /\ pc = "built" =>
          timeline = build_timeline(
              ParsableOnly(shelly_samples),
              [j \in 1..Len(cadvisor_by_service) |->
                  <<cadvisor_by_service[j][1],
                    ParsableOnly(cadvisor_by_service[j][2])>>])

\* C12: build_timeline is last-write-wins per normalized timestamp: the
\* power entry of a timestamp is the reading of the latest power sample, in
\* input order, that normalizes to it, and the entry of a service at a
\* timestamp is the reading of the latest of that service's CPU samples that
\* normalizes to it.
C12_LastWriteWins ==
    pc = "built" =>
        /\ \A k \in PowerKeys :
              LET w == WrittenAt(shelly_samples, "power_w", k)
              IN  /\ w # {}
                  /\ The(DictGet(timeline, k).shelly).power_w
                       = shelly_samples[Last(w)].power_w
        /\ \A j \in 1..Len(cadvisor_by_service) :
              \A k \in KeysOf(cadvisor_by_service[j][1]) :
                 LET samples == cadvisor_by_service[j][2]
                     w       == WrittenAt(samples, "cpu_cores_used", k)
                     r       == DictGet(The(DictGet(timeline, k).services),
                                        cadvisor_by_service[j][1])
                 IN  /\ w # {}
                     /\ r.cpu_cores_used = samples[Last(w)].cpu_cores_used

\* C12 witness: two power samples spelled differently normalize to one
\* timestamp and carry different readings.
C12_Witness ==
    /\ pc = "built"
    /\ \E i, j \in Complete(shelly_samples, "power_w") :
          /\ i < j
          /\ shelly_samples[i].ts # shelly_samples[j].ts
          /\ normalize_ts(shelly_samples[i].ts) = normalize_ts(shelly_samples[j].ts)
          /\ shelly_samples[i].power_w # shelly_samples[j].power_w

\* C13: a power record lacking ts or power_w and a CPU record lacking ts or
\* cpu_cores_used contribute nothing to the timeline and cause no failure
\* (build_timeline fails only on a record that has both fields); every
\* other record yields exactly the entry of its normalized timestamp.
C13_IncompleteSkipped ==
    /\ pc = "build_raised" =>
          \/ \E i \in Complete(shelly_samples, "power_w") :
                ~Parses(shelly_samples[i].ts)
          \/ \E j \in 1..Len(cadvisor_by_service) :
                \E i \in Complete(cadvisor_by_service[j][2], "cpu_cores_used") :
                   ~Parses(cadvisor_by_service[j][2][i].ts)
    /\ pc = "built" =>
          /\ PowerKeys = {normalize_ts(shelly_samples[i].ts) :
                             i \in Complete(shelly_samples, "power_w")}
          /\ \A j \in 1..Len(cadvisor_by_service) :
                KeysOf(cadvisor_by_service[j][1])
                  = {normalize_ts(cadvisor_by_service[j][2][i].ts) :
                       i \in Complete(cadvisor_by_service[j][2], "cpu_cores_used")}
          /\ TimelineKeys = PowerKeys \cup ServiceKeys
          /\ \A k \in ServiceKeys :
                \A n \in 1..Len(The(DictGet(timeline, k).services)) :
                   \E j \in 1..Len(cadvisor_by_service) :
                      cadvisor_by_service[j][1]
                        = The(DictGet(timeline, k).services)[n][1]

\* C13 witness: a timeline was built from a sampler error record whose
\* timestamp does not even parse, a CPU record without cpu_cores_used and one
\* complete power record: it holds the entry of that record only.
C13_Witness ==
    /\ pc = "built"
    /\ Len(shelly_samples) = 2
    /\ shelly_samples[1] = [ts |-> Unparsable, error |-> "read failed"]
    /\ HasFields(shelly_samples[2], "power_w")
    /\ cadvisor_by_service[1][2] = <<[ts |-> TsStr(0), cpu_percent_host |-> 50]>>
    /\ Len(timeline) = 1
    /\ ServiceKeys = {}

--------------------------------------------------------------------------
(* Properties of _first_non_empty *)

NoneRaises == \A i \in 1..Len(responses) : ~responses[i].raises

NonEmptyList(data) == data.is_list /\ data.items # <<>>

FirstNonEmpty(ok) ==
    IF \E i \in ok : NonEmptyList(responses[i].data)
    THEN Some(CHOOSE i \in ok :
                /\ NonEmptyList(responses[i].data)
                /\ \A j \in ok : j < i => ~NonEmptyList(responses[j].data))
    ELSE None

\* C8: when no candidate raises, the candidates are executed strictly in list
\* order, the result of the first candidate yielding a non-empty list is
\* returned and no later candidate is executed; when every candidate's
\* result is empty, an empty list is returned.
C8_FirstNonEmptyInOrder ==
    NoneRaises =>
        LET first == FirstNonEmpty(1..Len(responses))
        IN  /\ fne_calls = [j \in 1..Len(fne_calls) |-> j]
            /\ ~IsNone(first) => Len(fne_calls) <= The(first)
            /\ fne_pc = "returned" =>
                  IF IsNone(first)
                  THEN /\ fne_result = Some(EmptyList)
                       /\ Len(fne_calls) = Len(responses)
                  ELSE /\ fne_result = Some(responses[The(first)].data)
                       /\ Len(fne_calls) = The(first)

\* C8 witness: an empty result is skipped, the second candidate's non-empty
\* list is returned and two later candidates are left unexecuted.
C8_Witness ==
    /\ NoneRaises
    /\ fne_pc = "returned"
    /\ Len(responses) = 4
    /\ responses[1].data = EmptyList
    /\ fne_result = Some(Series(2))
    /\ fne_calls = <<1, 2>>
    /\ NonEmptyList(responses[3].data)

FailFailEmptyNonEmpty ==
    responses = <<Failing, Failing, Yields(EmptyList), Yields(Series(4))>>

\* C9: a candidate that raises does not fail the resolution: the error is
\* absorbed and the next candidate is tried, so for the candidates
\* [failing, failing, succeeding-empty, succeeding-nonempty] the result of the
\* fourth candidate is returned.
C9_FailuresAbsorbed ==
    FailFailEmptyNonEmpty =>
        /\ fne_pc # "raised"
        /\ fne_pc = "returned" => fne_result = Some(Series(4))

--------------------------------------------------------------------------
(* Properties of normalize_ts *)

\* C10: normalize_ts is idempotent: normalizing the normalized form of any
\* accepted timestamp, with or without offset and with or without a
\* sub-second part, gives the normalized form again.
C10_NormalizeIdempotent ==
    nt_pc = "twice" => nt_twice = nt_once

\* C10 witness: an input with a sub-second part and a non-UTC offset, which
\* the first normalization changes, has been normalized twice.
C10_Witness ==
    /\ nt_pc = "twice"
    /\ nt_input.hasFrac /\ nt_input.micro = 500000
    /\ nt_input.hasOff /\ nt_input.off = 19800
    /\ The(nt_once) # nt_input

--------------------------------------------------------------------------
(* Properties of the experiment run *)

WorkloadRaised ==
    ~IsNone(locust_artifacts) /\ "error" \in DOMAIN The(locust_artifacts)

PhaseOrder ==
    <<"sampler_start", "warm_up", "record_start", "workload", "record_end",
      "cool_down", "sampler_stop">>

IsPrefix(p, q) == Len(p) <= Len(q) /\ \A i \in 1..Len(p) : p[i] = q[i]

\* C5: in a run with a power meter configured in which the workload driver
\* raises, the run goes on to the cool-down delay and then stops the sampler
\* (the run flag is cleared), and stop() is invoked exactly once: never
\* twice, and the run cannot end or stall before that call.
C5_CoolDownThenStopOnce ==
    (shelly_configured /\ WorkloadRaised) =>
        /\ stop_calls <= 1
        /\ stop_calls = 0 =>
              /\ m_pc \in {"end_iso", "cool_down", "stop"}
              /\ ENABLED (M_EndIso \/ M_CoolDown \/ M_Stop)
        /\ stop_calls = 1 =>
              /\ Len(phases) = 7
              /\ phases[6] = "cool_down"
              /\ phases[7] = "sampler_stop"
              /\ ~Adapter.run

\* C5 witness: the workload raised, and the run has cooled down and stopped
\* the sampler once.
C5_Witness ==
    /\ shelly_configured
    /\ WorkloadRaised
    /\ stop_calls = 1
    /\ m_pc = "copy_powerjoular"

\* The failures of a collaborator, as opposed to those of main's own code
CollaboratorFailures ==
    {Some("detect_run_dir"), Some("parse_csvs"), Some("cpu_fraction"),
     Some("cpu_timeseries")}

\* C6: a run in which the workload driver raises completes without raising
\* to its caller and writes a final summary whose locust entry carries the
\* captured error.  Stated in its weakest form: such a run raises only when
\* another collaborator fails after the workload, and when it completes the
\* summary holds the error.
C6_WorkloadErrorSurfaced ==
    WorkloadRaised =>
        /\ m_pc = "raised" => raised_at \in CollaboratorFailures
        /\ m_pc = "done" =>
              /\ ~IsNone(summary)
              /\ The(summary).locust = The(locust_artifacts)

\* C7: with a power meter configured, the phases of a run occur in the order
\* sampler start, warm-up delay, start timestamp, workload call, end
\* timestamp, cool-down delay, sampler stop, each at most once, and the
\* sampler's run flag is set during the whole workload call.
C7_PhasesInOrder ==
    shelly_configured =>
        /\ IsPrefix(phases, PhaseOrder)
        /\ m_pc = "in_workload" => (~IsNone(shelly) /\ Adapter.run)

\* C7 witness: a run has gone through all seven phases.
C7_Witness ==
    /\ shelly_configured
    /\ phases = PhaseOrder

--------------------------------------------------------------------------
(* Properties of the sampler under any sequence of start() and stop() *)

\* A step is a call of start() or of stop() when it extends the history
CallOf(name) == phases' = Append(phases, name)

Alive(t) == threads[t].pc \notin {"exited", "died"}

\* C17: stop() called while the sampler is not running changes no state,
\* and start() called while the sampler is running changes no state: no
\* thread is created, and the thread, output path and frequency of the
\* adapter are kept.
C17_StopIdempotentStartGuarded ==
    [][/\ (CallOf("stop") /\ ~Adapter.run) =>
             UNCHANGED <<shelly, threads, power_log, m_pc>>
       /\ (CallOf("start") /\ Adapter.run) =>
             UNCHANGED <<shelly, threads, power_log, m_pc>>]_vars

\* C17 witness: stop() was called on the sampler never started, then
\* start() twice in a row; one thread exists and the sampler runs.
C17_Witness ==
    /\ phases = <<"stop", "start", "start">>
    /\ Len(threads) = 1
    /\ Adapter.run
    /\ Adapter.thr = Some(1)
    /\ m_pc = "caller"

\* C18: stop() always returns: it clears the run flag, and its wait for the
\* sampler thread ends, by the join timeout at the latest, also when the
\* thread has not terminated.
C18_StopReturns ==
    /\ [](m_pc = "caller_join" => ~Adapter.run)
    /\ (m_pc = "caller_join") ~> (m_pc = "caller")

\* C18 witness: stop() has returned from a running sampler whose thread is
\* still alive, the join having timed out.
C18_Witness ==
    /\ m_pc = "caller"
    /\ phases = <<"start", "stop">>
    /\ ~Adapter.run
    /\ IsNone(Adapter.thr)
    /\ Len(threads) = 1
    /\ threads[1].pc = "poll"

IsReading(rec) == DOMAIN rec = {"ts", "power_w"}
IsErrorRecord(rec) == DOMAIN rec = {"ts", "error"}

C20_LogTimeOrdered ==
    \A i, j \in 1..Len(power_log) :
        i < j => ts_to_epoch(power_log[i].ts) <= ts_to_epoch(power_log[j].ts)

--------------------------------------------------------------------------
(* Properties of the pipeline's stages taken together *)

\* A timeline without the estimates attribute() writes into its readings
StripEstimates(tl) ==
    [i \in 1..Len(tl) |->
        <<tl[i][1],
          [shelly   |-> tl[i][2].shelly,
           services |->
              IF IsNone(tl[i][2].services) THEN None
              ELSE Some([j \in 1..Len(The(tl[i][2].services)) |->
                           <<The(tl[i][2].services)[j][1],
                             The(tl[i][2].services)[j][2].cpu_cores_used>>])]>>]

AlignStep == pc = "built" /\ pc' = "aligned"
AttributeStep == pc = "aligned" /\ pc' \in {"attributed", "raised"}

\* C21, as claimed: no pipeline stage mutates a structure built by an
\* earlier stage: align_timeline leaves the timeline unchanged, and
\* attribute leaves the timeline and the aligned structure unchanged.
C21_NoStageMutates ==
    [][/\ AlignStep => timeline' = timeline
       /\ AttributeStep => (timeline' = timeline /\ aligned' = aligned)]_vars

\* C21, amended: align_timeline leaves the timeline unchanged; attribute
\* changes nothing but the estimated power of the service readings of the
\* aligned instants, which it writes into the readings the timeline and the
\* aligned structure share: keys, power readings, services and their CPU
\* values stay as they were, as do the entries of unaligned timestamps.
C21_OnlyEstimatesWritten ==
    [][/\ AlignStep => timeline' = timeline
       /\ AttributeStep =>
             /\ aligned' = aligned
             /\ StripEstimates(timeline') = StripEstimates(timeline)
             /\ \A i \in 1..Len(timeline) :
                   (~DictHas(aligned, timeline[i][1])) => timeline'[i] = timeline[i]]_vars

\* C21 witness: after attribute() the timeline holds an estimate in the
\* reading of an aligned instant and none in that of an unaligned one.
C21_Witness ==
    /\ pc = "attributed"
    /\ \E k \in ServiceKeys \ AlignedKeys :
          IsNone(The(DictGet(timeline, k).services)[1][2].estimated)
    /\ \E k \in AlignedKeys :
          /\ ~IsNone(The(DictGet(timeline, k).services)[1][2].estimated)
          /\ The(The(DictGet(timeline, k).services)[1][2].estimated).num > 0

Attributed == pc \in {"attributed", "exported"}

SumIsPower(services, power) ==
    /\ AllEstimated(services)
    /\ RatEq(SumEstimated(services, 1), [num |-> power, den |-> 1])

AllZero(services) ==
    \A j \in 1..Len(services) :
        /\ ~IsNone(services[j][2].estimated)
        /\ The(services[j][2].estimated).num = 0

\* C22, as claimed: for every attributed instant, if its total CPU is
\* strictly greater than epsilon the estimated powers of its services sum
\* to its power_w; otherwise, a total exactly equal to epsilon included,
\* every service's estimated power is 0.
C22_ZeroUpToEpsilon ==
    Attributed =>
        \A i \in 1..Len(aligned) :
            LET services == ServicesOf(timeline, aligned[i][2])
                power    == ShellyOf(timeline, aligned[i][2]).power_w
            IN  IF cpu_total_of(services) > cpu_epsilon_cores
                THEN SumIsPower(services, power)
                ELSE AllZero(services)

\* C22, amended: for every attributed instant, if its total CPU is greater
\* than or equal to epsilon the estimated powers of its services sum to its
\* power_w; otherwise (total strictly less than epsilon) every service's
\* estimated power is 0.
C22_ZeroBelowEpsilon ==
    Attributed =>
        \A i \in 1..Len(aligned) :
            LET services == ServicesOf(timeline, aligned[i][2])
                power    == ShellyOf(timeline, aligned[i][2]).power_w
            IN  IF cpu_total_of(services) >= cpu_epsilon_cores
                THEN SumIsPower(services, power)
                ELSE AllZero(services)

\* C22 witness: an attributed instant whose total CPU is exactly epsilon
\* has the whole of its power shared out.
C22_Witness ==
    /\ pc = "attributed"
    /\ cpu_epsilon_cores = DefaultCpuEpsilon
    /\ \E i \in 1..Len(aligned) :
          LET services == ServicesOf(timeline, aligned[i][2])
          IN  /\ Len(services) = 2
              /\ cpu_total_of(services) = cpu_epsilon_cores
              /\ ShellyOf(timeline, aligned[i][2]).power_w = 20
              /\ SumIsPower(services, 20)

\* C23: degenerate attribution is never an error: for every configured
\* cpu_epsilon_cores >= 0, 0 included, and every aligned instant with
\* non-negative CPU readings, attribute completes without raising, and an
\* instant whose total CPU is 0 gets estimated power 0 for all its services.
C23_DegenerateNeverRaises ==
    /\ pc # "raised"
    /\ Attributed =>
          \A i \in 1..Len(aligned) :
              LET services == ServicesOf(timeline, aligned[i][2])
              IN  cpu_total_of(services) = 0 => AllZero(services)

--------------------------------------------------------------------------
(* Properties of the pipeline under a reordering of its inputs *)

Reran == ~IsNone(reordered_result)

\* The estimated power of a service at an instant of a result, if any
EstimateOf(tl, al, ts, service) ==
    IF ~DictHas(al, ts) THEN None
    ELSE LET services == ServicesOf(tl, DictGet(al, ts))
         IN  IF ~DictHas(services, service) THEN None
             ELSE DictGet(services, service).estimated

SameOptionalRat(a, b) ==
    /\ IsNone(a) <=> IsNone(b)
    /\ ~IsNone(a) => RatEq(The(a), The(b))

\* Both runs finished and gave every (timestamp, service) the same estimate
SameEstimates ==
    LET r == The(reordered_result)
    IN  /\ pc = "attributed"
        /\ ~r.raised
        /\ \A ts \in TimelineKeys \cup {r.timeline[i][1] : i \in 1..Len(r.timeline)} :
           \A service \in {ServiceOrder[1], ServiceOrder[2]} :
              SameOptionalRat(EstimateOf(timeline, aligned, ts, service),
                              EstimateOf(r.timeline, r.aligned, ts, service))

\* A service-bearing timestamp with two power-bearing timestamps within
\* max_skew at the same, minimal, distance
TiedAt(t) ==
    \E k1, k2 \in PowerKeys :
        /\ k1 # k2
        /\ Distance(t, k1) = Distance(t, k2)
        /\ WithinSkew(t, k1)
        /\ \A k \in PowerKeys : Distance(t, k1) <= Distance(t, k)

NoTies == \A t \in ServiceKeys : ~TiedAt(t)

\* C24 (as stated): any two orderings of the same power samples and the
\* same CPU samples, no stream holding two samples of one normalized
\* timestamp, give every (timestamp, service) the same estimated power.
C24_OrderIndependent ==
    Reran => SameEstimates \/ (pc = "raised" /\ The(reordered_result).raised)

\* C24 (amended): the same holds provided no service-bearing timestamp has
\* two power-bearing timestamps within max_skew at the same minimal
\* distance; the two orderings also raise together or not at all.
C24_OrderIndependentWithoutTies ==
    (Reran /\ NoTies) =>
        SameEstimates \/ (pc = "raised" /\ The(reordered_result).raised)

\* C24 witness: two power samples at different distances from a service
\* instant are handed over in the opposite order, the instant is attributed
\* a non-zero power in both runs.
C24_Witness ==
    /\ Reran
    /\ NoTies
    /\ pc = "attributed"
    /\ Len(shelly_samples) = 2
    /\ The(reordered).shelly_samples = <<shelly_samples[2], shelly_samples[1]>>
    /\ shelly_samples[1].power_w # shelly_samples[2].power_w
    /\ \E i \in 1..Len(aligned) :
          /\ aligned[i][2].shelly = normalize_ts(shelly_samples[2].ts)
          /\ aligned[i][1] # aligned[i][2].shelly
          /\ \E j \in 1..Len(ServicesOf(timeline, aligned[i][2])) :
                The(ServicesOf(timeline, aligned[i][2])[j][2].estimated).num > 0
--------------------------------------------------------------------------
(* Properties of the tie-break *)

\* Where a power-bearing timestamp first occurs among the power samples
FirstOccurrence(k) ==
    CHOOSE i \in 1..Len(shelly_samples) :
        /\ normalize_ts(shelly_samples[i].ts) = k
        /\ \A j \in 1..(i - 1) : normalize_ts(shelly_samples[j].ts) # k

\* Power (0 s, p1), (2 s, p2) in this order, A and B at 1.0 cores at 1 s,
\* max_skew 2 s
TieScenario(p1, p2) ==
    /\ shelly_samples = <<ShellySample(0, p1), ShellySample(2, p2)>>
    /\ cadvisor_by_service = << <<"A", <<CpuSample(1, 1000)>> >>,
                                <<"B", <<CpuSample(1, 1000)>> >> >>
    /\ max_time_skew_s = 2

\* Every service of every aligned instant is estimated at w watts
EachGets(w) ==
    /\ Len(aligned) = 1
    /\ LET services == ServicesOf(timeline, aligned[1][2])
       IN  /\ Len(services) = 2
           /\ \A j \in 1..2 :
                 /\ ~IsNone(services[j][2].estimated)
                 /\ RatEq(The(services[j][2].estimated), [num |-> w, den |-> 1])

\* C25: among the power-bearing timestamps equally near to an aligned
\* instant, the chosen one is the one that occurs first in the input order
\* of the power samples; with power (0 s, 10 W), (2 s, 20 W), A and B at
\* 1.0 cores at 1 s and max_skew 2, A and B each get half of the selected
\* reading: 5 W each, or 10 W each when the 20 W sample comes first.
C25_TieFirstEncountered ==
    /\ Aligned =>
          \A i \in 1..Len(aligned) : \A k \in PowerKeys :
              Distance(aligned[i][1], k)
                  = Distance(aligned[i][1], aligned[i][2].shelly)
              => FirstOccurrence(aligned[i][2].shelly) <= FirstOccurrence(k)
    /\ (pc = "attributed" /\ TieScenario(10, 20)) => EachGets(5)
    /\ (pc = "attributed"
          /\ shelly_samples = <<ShellySample(2, 20), ShellySample(0, 10)>>
          /\ cadvisor_by_service = << <<"A", <<CpuSample(1, 1000)>> >>,
                                      <<"B", <<CpuSample(1, 1000)>> >> >>
          /\ max_time_skew_s = 2) => EachGets(10)

\* C25 witness: the scenario has been attributed, the tie went to the 10 W
\* reading that came first.
C25_Witness ==
    /\ pc = "attributed"
    /\ TieScenario(10, 20)
    /\ aligned[1][2].shelly = normalize_ts(shelly_samples[1].ts)
    /\ Distance(aligned[1][1], normalize_ts(shelly_samples[1].ts))
         = Distance(aligned[1][1], normalize_ts(shelly_samples[2].ts))
    /\ EachGets(5)
--------------------------------------------------------------------------
(* Properties of the sampler's threads *)

\* The threads inside an iteration of _loop: past the test of the run
\* flag, reading the meter or writing the record
InLoop == {t \in 1..Len(threads) : threads[t].pc \in {"poll", "write"}}

\* C26: at most one sampler loop is active at any time, for any sequence
\* of start() and stop() calls on one sampler, a stop() whose join times
\* out followed by a new start() included.
C26_OneLoopActive == Cardinality(InLoop) <= 1
--------------------------------------------------------------------------
(* Properties of main around the end of sampling *)

\* main is at a statement between the return of shelly.stop() and the
\* load of power.jsonl
PastStop ==
    /\ stop_calls >= 1
    /\ m_pc \in {"copy_powerjoular", "detect_run_dir", "parse_csvs",
                 "cpu_fraction", "cpu_timeseries", "export_core_series"}

RunEnded == m_pc = "raised"

\* C28: in every run in which the sampler was started, stop() has been
\* called when the run ends, also when the run ends by an exception of
\* the container runtime query, the duration parsing, the launcher start
\* or the workload call.
C28_StartedThenStopped ==
    (RunEnded /\ ~IsNone(shelly)) => stop_calls >= 1
--------------------------------------------------------------------------
(* Properties of what alignment selects and keeps *)

\* The power values the samples give for a normalized timestamp
PowersGivenAt(k) ==
    {shelly_samples[j].power_w :
        j \in {n \in 1..Len(shelly_samples) :
                 normalize_ts(shelly_samples[n].ts) = k}}

\* C29: the power reading of every aligned instant is the power entry of a
\* timestamp of the timeline, with a power value one of the samples gave
\* for that timestamp; an instant whose own timestamp carries a power entry
\* is aligned and is given that own entry.
C29_NoInventedPower ==
    Aligned =>
        /\ \A i \in 1..Len(aligned) :
              /\ aligned[i][2].shelly \in PowerKeys
              /\ ShellyOf(timeline, aligned[i][2]).power_w
                    \in PowersGivenAt(aligned[i][2].shelly)
              /\ aligned[i][1] \in PowerKeys
                    => aligned[i][2].shelly = aligned[i][1]
        /\ \A t \in ServiceKeys \cap PowerKeys : t \in AlignedKeys

\* C29 witness: an instant with a power entry of its own was aligned; the
\* search met another power reading within max_skew before it.
C29_Witness ==
    /\ pc = "aligned"
    /\ \E i \in 1..Len(aligned) :
          LET pow == shelly_only(timeline)
          IN  /\ aligned[i][1] \in PowerKeys
              /\ aligned[i][2].shelly = aligned[i][1]
              /\ Len(pow) = 2
              /\ pow[1][1] # aligned[i][1]
              /\ WithinSkew(aligned[i][1], pow[1][1])
              /\ ShellyOf(timeline, aligned[i][2]).power_w
                    # The(DictGet(timeline, pow[1][1]).shelly).power_w

\* C30: every service-bearing timestamp of the timeline with a
\* power-bearing timestamp within max_skew seconds, a distance of exactly
\* max_skew included, is in the aligned result with the services it has in
\* the timeline.
C30_NothingMatchableDropped ==
    Aligned =>
        \A t \in ServiceKeys :
            (\E k \in PowerKeys : WithinSkew(t, k)) =>
                /\ t \in AlignedKeys
                /\ DictGet(aligned, t).services = t
                /\ DictKeys(ServicesOf(timeline, DictGet(aligned, t)))
                     = DictKeys(The(DictGet(timeline, t).services))

\* C30 witness: an instant of two services whose only power reading lies
\* at exactly max_skew has been aligned.
C30_Witness ==
    /\ pc = "aligned"
    /\ Cardinality(PowerKeys) = 1
    /\ \E i \in 1..Len(aligned) :
          /\ Distance(aligned[i][1], aligned[i][2].shelly)
               = max_time_skew_s * 1000000
          /\ Len(ServicesOf(timeline, aligned[i][2])) = 2
====
